---- MODULE Spec2Model ----
(***************************************************************************)
(* A model of the C++ TurboModule bridge generator                         *)
(* (packages/react-native-codegen/src/generators/modules/                  *)
(* GenerateModuleCpp.js) and of the UserFlow reliability wrapper           *)
(* (Libraries/Reliability/UserFlow.js).                                    *)
(*                                                                         *)
(* Generated text is a sequence of string tokens: the concatenation of the *)
(* tokens of a text is the string the JavaScript template literal builds.  *)
(* Every interpolated value (a name, an index, a count) is a token of its  *)
(* own, so that the emitted text can be taken apart again.                 *)
(*                                                                         *)
(* A JavaScript call that may throw returns a record with ok = TRUE and    *)
(* the value, or ok = FALSE and the error message.                         *)
(***************************************************************************)
EXTENDS Integers, Sequences, FiniteSets, TLC

VARIABLES
  libraryName,   \* generate: its first argument
  schema,        \* generate: its second argument
  result,        \* generate: what the last invocation returned or threw
  previous,      \* generate: what the invocation before the last returned or threw
  arg,           \* serializeArg: the parameter
  index,         \* serializeArg: its position
  aliases,       \* serializeArg: the alias table behind resolveAlias
  argResult,     \* serializeArg: what the call returned or threw
  installed,     \* UserFlow: the native entry points present on global
  flow,          \* UserFlow: the FlowId the last newFlowId returned
  calls,         \* UserFlow: the native calls the last API call made, in order
  last           \* UserFlow: the last API call: which, and whether its native was there

vars == <<libraryName, schema, result, previous, arg, index, aliases, argResult,
          installed, flow, calls, last>>

genVars == <<libraryName, schema, result, previous>>
argVars == <<arg, index, aliases, argResult>>
ufVars == <<installed, flow, calls, last>>

None == [kind |-> "none"]

-----------------------------------------------------------------------------
(* Text helpers: Array.prototype.join and string building.                  *)

RECURSIVE join(_, _)
join(texts, sep) ==
  IF Len(texts) = 0 THEN <<>>
  ELSE IF Len(texts) = 1 THEN texts[1]
  ELSE texts[1] \o <<sep>> \o join(Tail(texts), sep)

RECURSIVE flatten(_)
flatten(text) ==
  IF Len(text) = 0 THEN "" ELSE text[1] \o flatten(Tail(text))

-----------------------------------------------------------------------------
(* Type annotations of the schema.                                          *)

Ann(t) == [type |-> t]
Reserved(n) == [type |-> "ReservedTypeAnnotation", name |-> n]
Alias(n) == [type |-> "TypeAliasTypeAnnotation", name |-> n]
Nullable(t) == [type |-> "NullableTypeAnnotation", typeAnnotation |-> t]

\* the inner annotation and whether a nullable wrapper was on it; a wrapper
\* around a wrapper unwraps to the same inner annotation
RECURSIVE unwrapNullable(_)
unwrapNullable(x) ==
  IF x.type = "NullableTypeAnnotation"
  THEN <<unwrapNullable(x.typeAnnotation)[1], TRUE>>
  ELSE <<x, FALSE>>

AliasNames == {"ObjAlias", "StrAlias", "Chain", "Missing"}

createAliasResolver(aliasMap) ==
  [aliasName \in AliasNames |->
     IF aliasName \in DOMAIN aliasMap
     THEN [ok |-> TRUE, val |-> aliasMap[aliasName]]
     ELSE [ok |-> FALSE,
           error |-> <<"Unable to resolve type alias '", aliasName, "'.">>]]

-----------------------------------------------------------------------------
(* serializeArg                                                             *)

\* mutant: the conversion is emitted bare whether or not the parameter is nullable
wrap_neverTestsNull(index_, nullable, suffix) ==
  <<"args[", ToString(index_), "]">> \o <<suffix>>

wrap(index_, nullable, suffix) ==
  LET val == <<"args[", ToString(index_), "]">>
      expression == val \o <<suffix>>
  IN IF nullable
     THEN val \o <<".isNull()", " || ">> \o val
          \o <<".isUndefined()", " ? ", "std::nullopt", " : ", "std::make_optional(">>
          \o expression \o <<")">>
     ELSE expression

UnknownPropType(name, found) ==
  <<"Unknown prop type for \"", name, ", found: ", found, "\"">>

\* mutant: an annotation no case matches yields an empty expression
serializeArg_defaultsToEmpty(arg_, index_, resolveAlias) ==
  LET unwrapped == unwrapNullable(arg_.typeAnnotation)
      typeAnnotation == unwrapped[1]
      nullable == unwrapped[2]
      isAlias == typeAnnotation.type = "TypeAliasTypeAnnotation"
      resolved == IF isAlias THEN resolveAlias[typeAnnotation.name]
                  ELSE [ok |-> TRUE, val |-> typeAnnotation]
      Ret(suffix) == [ok |-> TRUE, text |-> wrap(index_, nullable, suffix)]
  IN IF ~resolved.ok THEN [ok |-> FALSE, error |-> resolved.error]
     ELSE LET realTypeAnnotation == resolved.val
              type == realTypeAnnotation.type
          IN CASE type = "ReservedTypeAnnotation" ->
                    IF realTypeAnnotation.name = "RootTag"
                    THEN Ret(".getNumber()")
                    ELSE [ok |-> TRUE, text |-> <<>>]
               [] type = "StringTypeAnnotation" -> Ret(".asString(rt)")
               [] type = "BooleanTypeAnnotation" -> Ret(".asBool()")
               [] type = "NumberTypeAnnotation" -> Ret(".asNumber()")
               [] type = "FloatTypeAnnotation" -> Ret(".asNumber()")
               [] type = "DoubleTypeAnnotation" -> Ret(".asNumber()")
               [] type = "Int32TypeAnnotation" -> Ret(".asNumber()")
               [] type = "ArrayTypeAnnotation" -> Ret(".asObject(rt).asArray(rt)")
               [] type = "FunctionTypeAnnotation" -> Ret(".asObject(rt).asFunction(rt)")
               [] type = "GenericObjectTypeAnnotation" -> Ret(".asObject(rt)")
               [] type = "ObjectTypeAnnotation" -> Ret(".asObject(rt)")
               [] OTHER -> [ok |-> TRUE, text |-> <<>>]

RECURSIVE chase(_, _, _)
chase(resolveAlias, t, fuel) ==
  IF t.type = "TypeAliasTypeAnnotation" /\ fuel > 0
  THEN IF resolveAlias[t.name].ok
       THEN chase(resolveAlias, resolveAlias[t.name].val, fuel - 1)
       ELSE resolveAlias[t.name]
  ELSE [ok |-> TRUE, val |-> t]

\* mutant: an alias of an alias is followed to its end
serializeArg_chasesAliases(arg_, index_, resolveAlias) ==
  LET unwrapped == unwrapNullable(arg_.typeAnnotation)
      typeAnnotation == unwrapped[1]
      nullable == unwrapped[2]
      resolved == chase(resolveAlias, typeAnnotation, Cardinality(AliasNames))
      Ret(suffix) == [ok |-> TRUE, text |-> wrap(index_, nullable, suffix)]
  IN IF ~resolved.ok THEN [ok |-> FALSE, error |-> resolved.error]
     ELSE LET realTypeAnnotation == resolved.val
              type == realTypeAnnotation.type
          IN CASE type = "ReservedTypeAnnotation" ->
                    IF realTypeAnnotation.name = "RootTag"
                    THEN Ret(".getNumber()")
                    ELSE [ok |-> FALSE,
                          error |-> UnknownPropType(arg_.name, realTypeAnnotation.name)]
               [] type = "StringTypeAnnotation" -> Ret(".asString(rt)")
               [] type = "BooleanTypeAnnotation" -> Ret(".asBool()")
               [] type = "NumberTypeAnnotation" -> Ret(".asNumber()")
               [] type = "FloatTypeAnnotation" -> Ret(".asNumber()")
               [] type = "DoubleTypeAnnotation" -> Ret(".asNumber()")
               [] type = "Int32TypeAnnotation" -> Ret(".asNumber()")
               [] type = "ArrayTypeAnnotation" -> Ret(".asObject(rt).asArray(rt)")
               [] type = "FunctionTypeAnnotation" -> Ret(".asObject(rt).asFunction(rt)")
               [] type = "GenericObjectTypeAnnotation" -> Ret(".asObject(rt)")
               [] type = "ObjectTypeAnnotation" -> Ret(".asObject(rt)")
               [] OTHER -> [ok |-> FALSE, error |-> UnknownPropType(arg_.name, type)]

serializeArg(arg_, index_, resolveAlias) ==
  LET unwrapped == unwrapNullable(arg_.typeAnnotation)
      typeAnnotation == unwrapped[1]
      nullable == unwrapped[2]
      isAlias == typeAnnotation.type = "TypeAliasTypeAnnotation"
      resolved == IF isAlias THEN resolveAlias[typeAnnotation.name]
                  ELSE [ok |-> TRUE, val |-> typeAnnotation]
      Ret(suffix) == [ok |-> TRUE, text |-> wrap(index_, nullable, suffix)]
  IN IF ~resolved.ok THEN [ok |-> FALSE, error |-> resolved.error]
     ELSE LET realTypeAnnotation == resolved.val
              type == realTypeAnnotation.type
          IN CASE type = "ReservedTypeAnnotation" ->
                    IF realTypeAnnotation.name = "RootTag"
                    THEN Ret(".getNumber()")
                    ELSE [ok |-> FALSE,
                          error |-> UnknownPropType(arg_.name, realTypeAnnotation.name)]
               [] type = "StringTypeAnnotation" -> Ret(".asString(rt)")
               [] type = "BooleanTypeAnnotation" -> Ret(".asBool()")
               [] type = "NumberTypeAnnotation" -> Ret(".asNumber()")
               [] type = "FloatTypeAnnotation" -> Ret(".asNumber()")
               [] type = "DoubleTypeAnnotation" -> Ret(".asNumber()")
               [] type = "Int32TypeAnnotation" -> Ret(".asNumber()")
               [] type = "ArrayTypeAnnotation" -> Ret(".asObject(rt).asArray(rt)")
               [] type = "FunctionTypeAnnotation" -> Ret(".asObject(rt).asFunction(rt)")
               [] type = "GenericObjectTypeAnnotation" -> Ret(".asObject(rt)")
               [] type = "ObjectTypeAnnotation" -> Ret(".asObject(rt)")
               [] OTHER -> [ok |-> FALSE, error |-> UnknownPropType(arg_.name, type)]

-----------------------------------------------------------------------------
(* The templates.                                                           *)

\* mutant: the call is returned whether or not the method is void
HostFunctionTemplate_alwaysReturnsCall(hasteModuleName, methodName, isVoid, args) ==
  LET methodCallArgs == join(<< <<"rt">> >> \o args, ", ")
      methodCall == <<"static_cast<", hasteModuleName, "CxxSpecJSI *>(&turboModule)->",
                      methodName, "(">> \o methodCallArgs \o <<");">>
  IN <<"static jsi::Value ", "__hostFunction_", hasteModuleName, "CxxSpecJSI_", methodName,
       "(jsi::Runtime &rt, TurboModule &turboModule, const jsi::Value* args, size_t count) {">>
     \o <<"\n  return ">> \o methodCall \o <<"\n}">>

\* mutant: the trampoline's name is not qualified by the module
HostFunctionTemplate_unqualified(hasteModuleName, methodName, isVoid, args) ==
  LET methodCallArgs == join(<< <<"rt">> >> \o args, ", ")
      methodCall == <<"static_cast<", hasteModuleName, "CxxSpecJSI *>(&turboModule)->",
                      methodName, "(">> \o methodCallArgs \o <<");">>
  IN <<"static jsi::Value ", "__hostFunction_", "", "CxxSpecJSI_", methodName,
       "(jsi::Runtime &rt, TurboModule &turboModule, const jsi::Value* args, size_t count) {">>
     \o (IF isVoid THEN <<"\n  ">> \o methodCall ELSE <<>>)
     \o <<"\n  return ">>
     \o (IF isVoid THEN <<"jsi::Value::undefined();">> ELSE methodCall)
     \o <<"\n}">>

HostFunctionTemplate(hasteModuleName, methodName, isVoid, args) ==
  LET methodCallArgs == join(<< <<"rt">> >> \o args, ", ")
      methodCall == <<"static_cast<", hasteModuleName, "CxxSpecJSI *>(&turboModule)->",
                      methodName, "(">> \o methodCallArgs \o <<");">>
  IN <<"static jsi::Value ", "__hostFunction_", hasteModuleName, "CxxSpecJSI_", methodName,
       "(jsi::Runtime &rt, TurboModule &turboModule, const jsi::Value* args, size_t count) {">>
     \o (IF isVoid THEN <<"\n  ">> \o methodCall ELSE <<>>)
     \o <<"\n  return ">>
     \o (IF isVoid THEN <<"jsi::Value::undefined();">> ELSE methodCall)
     \o <<"\n}">>

MethodMapEntry(hasteModuleName, method) ==
  <<"  methodMap_[\"", method.methodName, "\"] = MethodMetadata {",
    ToString(method.paramCount), ", ", "__hostFunction_", hasteModuleName,
    "CxxSpecJSI_", method.methodName, "};">>

\* mutant: the methodMap_ entries are written last method first
ModuleTemplate_reversed(hasteModuleName, hostFunctions, moduleName, methods) ==
  join(hostFunctions, "\n")
  \o <<"\n\n", hasteModuleName, "CxxSpecJSI::", hasteModuleName,
       "CxxSpecJSI(std::shared_ptr<CallInvoker> jsInvoker)\n  : TurboModule(\"",
       moduleName, "\", jsInvoker) {\n">>
  \o join([i \in 1..Len(methods) |->
             MethodMapEntry(hasteModuleName, methods[Len(methods) + 1 - i])], "\n")
  \o <<"\n}">>

ModuleTemplate(hasteModuleName, hostFunctions, moduleName, methods) ==
  join(hostFunctions, "\n")
  \o <<"\n\n", hasteModuleName, "CxxSpecJSI::", hasteModuleName,
       "CxxSpecJSI(std::shared_ptr<CallInvoker> jsInvoker)\n  : TurboModule(\"",
       moduleName, "\", jsInvoker) {\n">>
  \o join([i \in 1..Len(methods) |-> MethodMapEntry(hasteModuleName, methods[i])], "\n")
  \o <<"\n}">>

FileTemplate(libraryName_, modules) ==
  <<"/**\n * This code was generated by [react-native-codegen](https://www.npmjs.com/package/react-native-codegen).\n *\n * Do not edit this file as changes may cause incorrect behavior and will be lost\n * once the code is regenerated.\n *\n * @generated by codegen project: GenerateModuleH.js\n */\n\n#include \"",
    libraryName_, "JSI.h\"\n\nnamespace facebook {\nnamespace react {\n\n">>
  \o modules
  \o <<"\n\n\n} // namespace react\n} // namespace facebook\n">>

-----------------------------------------------------------------------------
(* serializePropertyIntoHostFunction and generate.                          *)

Min(S) == CHOOSE x \in S : \A y \in S : x <= y

\* mutant: the arguments are numbered from 1
serializePropertyIntoHostFunction_fromOne(hasteModuleName, property, resolveAlias) ==
  LET propertyTypeAnnotation == unwrapNullable(property.typeAnnotation)[1]
      isVoid == propertyTypeAnnotation.returnTypeAnnotation.type = "VoidTypeAnnotation"
      params == propertyTypeAnnotation.params
      args == [j \in 1..Len(params) |-> serializeArg(params[j], j, resolveAlias)]
      thrown == {j \in 1..Len(params) : ~args[j].ok}
  IN IF thrown # {}
     THEN [ok |-> FALSE, error |-> args[Min(thrown)].error]
     ELSE [ok |-> TRUE,
           text |-> HostFunctionTemplate(hasteModuleName, property.name, isVoid,
                                         [j \in 1..Len(params) |-> args[j].text])]

serializePropertyIntoHostFunction(hasteModuleName, property, resolveAlias) ==
  LET propertyTypeAnnotation == unwrapNullable(property.typeAnnotation)[1]
      isVoid == propertyTypeAnnotation.returnTypeAnnotation.type = "VoidTypeAnnotation"
      params == propertyTypeAnnotation.params
      \* params.map((p, i) => serializeArg(p, i, resolveAlias)): i counts from 0
      args == [j \in 1..Len(params) |-> serializeArg(params[j], j - 1, resolveAlias)]
      thrown == {j \in 1..Len(params) : ~args[j].ok}
  IN IF thrown # {}
     THEN [ok |-> FALSE, error |-> args[Min(thrown)].error]
     ELSE [ok |-> TRUE,
           text |-> HostFunctionTemplate(hasteModuleName, property.name, isVoid,
                                         [j \in 1..Len(params) |-> args[j].text])]

\* A JavaScript object is the sequence of its entries, in Object.keys order.
ObjectKeys(obj) == [i \in 1..Len(obj) |-> obj[i].key]
Get(obj, k) == (CHOOSE e \in {obj[i] : i \in 1..Len(obj)} : e.key = k).value

getModules(schema_) == schema_.modules

\* mutant: a property whose serialization throws is left out and the rest is emitted
generateModule_skipsFailing(nativeModules, hasteModuleName) ==
  LET nativeModule == Get(nativeModules, hasteModuleName)
      properties == nativeModule.spec.properties
      moduleNames == nativeModule.moduleNames
      resolveAlias == createAliasResolver(nativeModule.aliases)
      hostFunctions == [i \in 1..Len(properties) |->
                          serializePropertyIntoHostFunction(
                            hasteModuleName, properties[i], resolveAlias)]
      kept == SelectSeq([i \in 1..Len(properties) |-> i], LAMBDA i : hostFunctions[i].ok)
  IN [ok |-> TRUE,
      text |-> ModuleTemplate(
        hasteModuleName,
        [i \in 1..Len(kept) |-> hostFunctions[kept[i]].text],
        IF Len(moduleNames) = 0 THEN "undefined" ELSE moduleNames[1],
        [i \in 1..Len(kept) |->
           [methodName |-> properties[kept[i]].name,
            paramCount |->
              Len(unwrapNullable(properties[kept[i]].typeAnnotation)[1].params)]])]

\* The callback generate maps over Object.keys(nativeModules).
generateModule(nativeModules, hasteModuleName) ==
  LET nativeModule == Get(nativeModules, hasteModuleName)
      properties == nativeModule.spec.properties
      moduleNames == nativeModule.moduleNames
      resolveAlias == createAliasResolver(nativeModule.aliases)
      hostFunctions == [i \in 1..Len(properties) |->
                          serializePropertyIntoHostFunction(
                            hasteModuleName, properties[i], resolveAlias)]
      thrown == {i \in 1..Len(properties) : ~hostFunctions[i].ok}
  IN IF thrown # {}
     THEN [ok |-> FALSE, error |-> hostFunctions[Min(thrown)].error]
     ELSE [ok |-> TRUE,
           text |-> ModuleTemplate(
             hasteModuleName,
             [i \in 1..Len(properties) |-> hostFunctions[i].text],
             IF Len(moduleNames) = 0 THEN "undefined" ELSE moduleNames[1],
             [i \in 1..Len(properties) |->
                [methodName |-> properties[i].name,
                 paramCount |->
                   Len(unwrapNullable(properties[i].typeAnnotation)[1].params)]])]

\* mutant: the modules are emitted last key first
generate_lastKeyFirst(libraryName_, schema_) ==
  LET nativeModules == getModules(schema_)
      inOrder == ObjectKeys(nativeModules)
      keys == [i \in 1..Len(inOrder) |-> inOrder[Len(inOrder) + 1 - i]]
      mapped == [i \in 1..Len(keys) |-> generateModule(nativeModules, keys[i])]
      thrown == {i \in 1..Len(keys) : ~mapped[i].ok}
  IN IF thrown # {}
     THEN [kind |-> "throw", error |-> mapped[Min(thrown)].error]
     ELSE LET modules == join([i \in 1..Len(keys) |-> mapped[i].text], "\n")
              fileName == libraryName_ \o "JSI-generated.cpp"
              replacedTemplate == FileTemplate(libraryName_, modules)
          IN [kind |-> "return", files |-> [f \in {fileName} |-> replacedTemplate]]

generate(libraryName_, schema_) ==
  LET nativeModules == getModules(schema_)
      keys == ObjectKeys(nativeModules)
      mapped == [i \in 1..Len(keys) |-> generateModule(nativeModules, keys[i])]
      thrown == {i \in 1..Len(keys) : ~mapped[i].ok}
  IN IF thrown # {}
     THEN [kind |-> "throw", error |-> mapped[Min(thrown)].error]
     ELSE LET modules == join([i \in 1..Len(keys) |-> mapped[i].text], "\n")
              fileName == libraryName_ \o "JSI-generated.cpp"
              replacedTemplate == FileTemplate(libraryName_, modules)
          IN [kind |-> "return", files |-> [f \in {fileName} |-> replacedTemplate]]

-----------------------------------------------------------------------------
(* Inputs of generate: schemas of up to MaxModules modules. The first       *)
(* module holds up to MaxProps properties, each either the method under     *)
(* study (any name, any return type, 0..MaxParams parameters whose types    *)
(* run through GoodTypes, one of them possibly malformed) or the fixed      *)
(* method Bar; the modules after it are drawn from SiblingModules.          *)
(* FooMaybeVoid returns ?void, whose annotation is a nullable wrapper and   *)
(* not VoidTypeAnnotation.                                                  *)

MaxParams == 2
MaxProps == 2
MaxModules == 2

SeqsUpTo(S, n) == UNION {[1..k -> S] : k \in 0..n}

MethodNames == {"foo", "bar"}
ReturnTypes == {Ann("VoidTypeAnnotation"), Ann("NumberTypeAnnotation")}
GoodTypes == <<Ann("NumberTypeAnnotation"), Nullable(Ann("StringTypeAnnotation")),
               Alias("ObjAlias")>>
BadTypes == <<Reserved("Other"), Alias("Missing"), Nullable(Ann("PromiseTypeAnnotation"))>>
Pick(types, n) == types[(n % Len(types)) + 1]

ParamName(i) == "p" \o ToString(i)
\* k parameters; parameter i (from 0) has type GoodTypes[i + rot], but for
\* parameter bad - 1, which is malformed (bad = 0: none is)
ParamsOf(k, rot, bad) ==
  [j \in 1..k |->
     [name |-> ParamName(j - 1),
      typeAnnotation |-> IF j = bad THEN Pick(BadTypes, j - 1)
                         ELSE Pick(GoodTypes, j - 1 + rot)]]
GenParamLists ==
  {ParamsOf(k, rot, bad) : k \in 0..MaxParams, rot \in 0..(Len(GoodTypes) - 1),
                           bad \in 0..MaxParams}
FunctionType(ps, r) ==
  [type |-> "FunctionTypeAnnotation", params |-> ps, returnTypeAnnotation |-> r]
GenProperties ==
  {[name |-> n, typeAnnotation |-> FunctionType(ps, r)] :
     n \in MethodNames, r \in ReturnTypes, ps \in GenParamLists}
Bar ==
  [name |-> "bar",
   typeAnnotation |->
     Nullable(FunctionType(<<[name |-> "x", typeAnnotation |-> Ann("NumberTypeAnnotation")]>>,
                           Ann("NumberTypeAnnotation")))]
FooMissing ==
  [name |-> "foo",
   typeAnnotation |->
     FunctionType(<<[name |-> "x", typeAnnotation |-> Alias("Missing")]>>,
                  Ann("VoidTypeAnnotation"))]
FooMaybeVoid ==
  [name |-> "foo",
   typeAnnotation |->
     Nullable(FunctionType(<<>>, Nullable(Ann("VoidTypeAnnotation"))))]
GenAliases == [a \in {"ObjAlias"} |-> Ann("ObjectTypeAnnotation")]
NativeModule(props, names) ==
  [type |-> "NativeModule", aliases |-> GenAliases, spec |-> [properties |-> props],
   moduleNames |-> names]
FirstModules ==
  {NativeModule(props, <<"SampleTurboModule", "SampleLegacy">>) :
     props \in UNION {SeqsUpTo({a, Bar}, MaxProps) : a \in GenProperties}}
SiblingModules ==
  {NativeModule(<<Bar, FooMaybeVoid>>, <<"Sibling">>),
   NativeModule(<<FooMissing>>, <<"Sibling">>)}
HasteName(i) == "Native" \o ToString(i)
\* the keys of schema.modules, in insertion order: ascending or descending
KeySeqs ==
  UNION {{[i \in 1..m |-> HasteName(i)], [i \in 1..m |-> HasteName(m + 1 - i)]} :
           m \in 1..MaxModules}
Schemas ==
  UNION {{[modules |-> [i \in 1..Len(ks) |->
                         [key |-> ks[i],
                          value |-> IF i = 1 THEN first ELSE rest[i - 1]]]] :
            first \in FirstModules, rest \in [1..(Len(ks) - 1) -> SiblingModules]} :
         ks \in KeySeqs}

GenIdle ==
  /\ libraryName = "" /\ schema = None /\ result = None /\ previous = None
ArgIdle ==
  /\ arg = None /\ index = 0 /\ aliases = <<>> /\ argResult = None
UFIdle ==
  /\ installed = {} /\ flow = None /\ calls = <<>> /\ last = None

Init ==
  /\ libraryName \in {"Sample"}
  /\ schema \in Schemas
  /\ result = None
  /\ previous = None
  /\ ArgIdle /\ UFIdle

Generate ==
  /\ result' = generate(libraryName, schema)
  /\ previous' = result
  /\ UNCHANGED <<libraryName, schema, argVars, ufVars>>

Next == Generate

Spec == Init /\ [][Next]_vars

-----------------------------------------------------------------------------
(* Reading the emitted file back: where the trampolines, the constructors   *)
(* and the methodMap_ entries are in the text, and what they say.           *)

Returned == result.kind = "return"
Threw == result.kind = "throw"
Text == result.files[CHOOSE f \in DOMAIN result.files : TRUE]

Positions(text, tok) == {q \in DOMAIN text : text[q] = tok}

RECURSIVE Ascending(_)
Ascending(S) == IF S = {} THEN <<>> ELSE <<Min(S)>> \o Ascending(S \ {Min(S)})

RECURSIVE Split(_, _)
Split(text, sep) ==
  IF Positions(text, sep) = {} THEN <<text>>
  ELSE LET q == Min(Positions(text, sep))
       IN <<SubSeq(text, 1, q - 1)>> \o Split(SubSeq(text, q + 1, Len(text)), sep)

\* the first closing brace line after position q
BlockEnd(q) ==
  LET text == Text
  IN CHOOSE e \in (q + 1)..Len(text) :
       text[e] = "\n}" /\ \A d \in (q + 1)..(e - 1) : text[d] # "\n}"

Modules == schema.modules
PropsOf(i) == Modules[i].value.spec.properties
ParamsOfProp(property) == unwrapNullable(property.typeAnnotation)[1].params
ReturnOf(property) == unwrapNullable(property.typeAnnotation)[1].returnTypeAnnotation

\* module i's block: from the end of the constructor before it to the end of its own
CtorAt == Ascending(Positions(Text, "CxxSpecJSI::"))
BlockFirst(i) == IF i = 1 THEN 1 ELSE BlockEnd(CtorAt[i - 1]) + 1
TrampolinesOf(i) ==
  LET first == BlockFirst(i)
      ctor == CtorAt[i]
  IN Ascending({q \in Positions(Text, "static jsi::Value ") : first <= q /\ q < ctor})
EntriesOf(i) ==
  LET ctor == CtorAt[i]
      end == BlockEnd(ctor)
  IN Ascending({q \in Positions(Text, "  methodMap_[\"") : ctor < q /\ q < end})

\* the trampoline that starts at position q
TrampolineText(q) == SubSeq(Text, q, BlockEnd(q))
TrampolineId(q) == flatten(SubSeq(Text, q + 1, q + 4))
TrampolineBody(q) == SubSeq(Text, q + 6, BlockEnd(q))
CallsIn(text) == Positions(text, "static_cast<")
\* the call that starts at position c of text: its method and its arguments
CallEnd(text, c) == Min({e \in Positions(text, ");") : e > c})
CallMethod(text, c) == text[c + 3]
CallArgs(text, c) == Split(SubSeq(text, c + 5, CallEnd(text, c) - 1), ", ")
CallText(text, c) == SubSeq(text, c, CallEnd(text, c))
\* the indices the text reads the boundary values at
IndicesRead(text) == {text[q + 1] : q \in Positions(text, "args[")}

\* the methodMap_ entry that starts at position q
EntryKey(q) == Text[q + 1]
EntryArity(q) == Text[q + 3]
EntryRef(q) == flatten(SubSeq(Text, q + 5, q + 8))

\* C1 (arity fidelity): in every emitted file, each property with k parameters
\* has a methodMap_ entry recording k, and its trampoline's call passes rt and
\* then k arguments, the i-th of which reads args[i] and no other index.
C1_ArityFidelity ==
  Returned =>
    \A i \in 1..Len(Modules) :
      LET entries == EntriesOf(i)
          trampolines == TrampolinesOf(i)
      IN
      /\ Len(entries) = Len(PropsOf(i))
      /\ Len(trampolines) = Len(PropsOf(i))
      /\ \A n \in 1..Len(PropsOf(i)) :
           LET k == Len(ParamsOfProp(PropsOf(i)[n]))
               tramp == TrampolineText(trampolines[n])
           IN /\ EntryArity(entries[n]) = ToString(k)
              /\ IndicesRead(tramp) = {ToString(j) : j \in 0..(k - 1)}
              /\ Cardinality(CallsIn(tramp)) = 1
              /\ \A c \in CallsIn(tramp) :
                   LET passed == CallArgs(tramp, c)
                   IN /\ Len(passed) = k + 1
                      /\ passed[1] = <<"rt">>
                      /\ \A j \in 1..k : IndicesRead(passed[j + 1]) = {ToString(j - 1)}

C1_Witness ==
  /\ Returned
  /\ \E i \in 1..Len(Modules) : \E n, m \in 1..Len(PropsOf(i)) :
       /\ Len(ParamsOfProp(PropsOf(i)[n])) = 1
       /\ Len(ParamsOfProp(PropsOf(i)[m])) >= 2
       /\ \E j \in 1..Len(ParamsOfProp(PropsOf(i)[m])) :
            ParamsOfProp(PropsOf(i)[m])[j].typeAnnotation.type = "NullableTypeAnnotation"

\* C4 (void vs. value return): the body of a void method's trampoline is the
\* call as a statement and then a return of jsi::Value::undefined(); the body
\* of any other method's trampoline is a single return of the call. The call
\* passes rt and then the serialized arguments in parameter order.
C4_VoidVsValue ==
  Returned =>
    \A i \in 1..Len(Modules) :
      LET trampolines == TrampolinesOf(i)
      IN
      /\ Len(trampolines) = Len(PropsOf(i))
      /\ \A n \in 1..Len(PropsOf(i)) :
           LET property == PropsOf(i)[n]
               params == ParamsOfProp(property)
               resolveAlias == createAliasResolver(Modules[i].value.aliases)
               body == TrampolineBody(trampolines[n])
               expected == << <<"rt">> >> \o
                           [j \in 1..Len(params) |->
                              serializeArg(params[j], j - 1, resolveAlias).text]
           IN /\ Cardinality(CallsIn(body)) = 1
              /\ \A c \in CallsIn(body) :
                   /\ CallMethod(body, c) = property.name
                   /\ CallArgs(body, c) = expected
                   /\ IF ReturnOf(property).type = "VoidTypeAnnotation"
                      THEN body = <<"\n  ">> \o CallText(body, c)
                                  \o <<"\n  return ", "jsi::Value::undefined();", "\n}">>
                      ELSE body = <<"\n  return ">> \o CallText(body, c) \o <<"\n}">>

C4_Witness ==
  /\ Returned
  /\ \E i \in 1..Len(Modules) : \E n, m \in 1..Len(PropsOf(i)) :
       /\ ReturnOf(PropsOf(i)[n]).type = "VoidTypeAnnotation"
       /\ Len(ParamsOfProp(PropsOf(i)[n])) >= 2
       /\ ReturnOf(PropsOf(i)[m]).type # "VoidTypeAnnotation"

\* C5 (registration completeness and order): each module's block holds one
\* trampoline and one methodMap_ entry per property, in declared order; the
\* n-th entry is keyed by the n-th property's name and refers to the n-th
\* trampoline, which is the one that calls that property's method.
C5_RegistrationOrder ==
  Returned =>
    /\ Len(CtorAt) = Len(Modules)
    /\ \A q \in Positions(Text, "static jsi::Value ") :
         \E i \in 1..Len(Modules) : \E n \in 1..Len(TrampolinesOf(i)) :
           TrampolinesOf(i)[n] = q
    /\ \A q \in Positions(Text, "  methodMap_[\"") :
         \E i \in 1..Len(Modules) : \E n \in 1..Len(EntriesOf(i)) :
           EntriesOf(i)[n] = q
    /\ \A i \in 1..Len(Modules) :
         LET trampolines == TrampolinesOf(i)
             entries == EntriesOf(i)
         IN
         /\ Len(trampolines) = Len(PropsOf(i))
         /\ Len(entries) = Len(PropsOf(i))
         /\ \A n \in 1..Len(PropsOf(i)) :
              LET q == trampolines[n]
                  e == entries[n]
                  tramp == TrampolineText(q)
              IN /\ EntryKey(e) = PropsOf(i)[n].name
                 /\ EntryRef(e) = TrampolineId(q)
                 /\ \A c \in CallsIn(tramp) : CallMethod(tramp, c) = PropsOf(i)[n].name

C5_Witness ==
  /\ Returned
  /\ \E i \in 1..Len(Modules) :
       /\ Len(PropsOf(i)) >= 2
       /\ PropsOf(i)[1].name # PropsOf(i)[2].name

\* the errors that serializing the parameters of the schema raises
ParamOutcomes ==
  UNION {UNION {{serializeArg(ParamsOfProp(PropsOf(i)[n])[j], j - 1,
                              createAliasResolver(Modules[i].value.aliases)) :
                   j \in 1..Len(ParamsOfProp(PropsOf(i)[n]))} :
                n \in 1..Len(PropsOf(i))} :
         i \in 1..Len(Modules)}
ParamErrors == {o.error : o \in {x \in ParamOutcomes : ~x.ok}}

\* C6 (no partial output on failure): when serializing some parameter of the
\* schema raises an error, generate throws one of those errors and returns no
\* file at all.
C6_NoPartialOutput ==
  (result # None /\ ParamErrors # {}) =>
    /\ Threw
    /\ result.error \in ParamErrors
    /\ "files" \notin DOMAIN result

C6_Witness ==
  /\ Threw
  /\ Len(Modules) >= 2
  /\ \E i \in 1..Len(Modules) : \E n \in 1..Len(PropsOf(i)) :
       \A j \in 1..Len(ParamsOfProp(PropsOf(i)[n])) :
         serializeArg(ParamsOfProp(PropsOf(i)[n])[j], j - 1,
                      createAliasResolver(Modules[i].value.aliases)).ok
  /\ Cardinality(ParamErrors) >= 2

\* the module whose block holds position q of the text
BlockOf(q) ==
  LET ctors == CtorAt
  IN Min({i \in 1..Len(ctors) : q < BlockEnd(ctors[i])})
TrampolineMethod(q) == Text[q + 4]

\* C7 (naming non-collision): two trampolines of the same file that belong to
\* different modules and serve methods of the same name have different names.
C7_NoCollision ==
  Returned =>
    \A q1, q2 \in Positions(Text, "static jsi::Value ") :
      (BlockOf(q1) # BlockOf(q2) /\ TrampolineMethod(q1) = TrampolineMethod(q2))
        => TrampolineId(q1) # TrampolineId(q2)

C7_Witness ==
  /\ Returned
  /\ \E q1, q2 \in Positions(Text, "static jsi::Value ") :
       /\ BlockOf(q1) # BlockOf(q2)
       /\ TrampolineMethod(q1) = TrampolineMethod(q2)
       /\ PropsOf(BlockOf(q1)) # PropsOf(BlockOf(q2))

-----------------------------------------------------------------------------
(* serializeArg on its own: one parameter, one index, one alias table.      *)

MaxIndex == 2

SupportedTags ==
  {"StringTypeAnnotation", "BooleanTypeAnnotation", "NumberTypeAnnotation",
   "FloatTypeAnnotation", "DoubleTypeAnnotation", "Int32TypeAnnotation",
   "ArrayTypeAnnotation", "FunctionTypeAnnotation", "GenericObjectTypeAnnotation",
   "ObjectTypeAnnotation"}
\* tags of the schema that are no parameter type, and one that no schema has
UnsupportedTags == {"VoidTypeAnnotation", "PromiseTypeAnnotation", "UnknownTypeAnnotation"}
ArgBaseTypes ==
  {Ann(t) : t \in SupportedTags \cup UnsupportedTags}
  \cup {Reserved("RootTag"), Reserved("OtherTag")}
  \cup {Alias(n) : n \in AliasNames}
ArgTypes == ArgBaseTypes \cup {Nullable(t) : t \in ArgBaseTypes}
AliasTables ==
  {("ObjAlias" :> Ann("ObjectTypeAnnotation")),
   ("ObjAlias" :> Ann("ObjectTypeAnnotation")) @@ ("StrAlias" :> Ann("StringTypeAnnotation"))
     @@ ("Chain" :> Alias("ObjAlias")),
   ("ObjAlias" :> Ann("GenericObjectTypeAnnotation")) @@ ("StrAlias" :> Ann("ArrayTypeAnnotation"))
     @@ ("Chain" :> Alias("Chain")),
   ("ObjAlias" :> Ann("ObjectTypeAnnotation")) @@ ("StrAlias" :> Reserved("RootTag"))
     @@ ("Chain" :> Ann("PromiseTypeAnnotation"))}

InitArg ==
  /\ arg \in {[name |-> n, typeAnnotation |-> t] : n \in {"a", "b"}, t \in ArgTypes}
  /\ index \in 0..MaxIndex
  /\ aliases \in AliasTables
  /\ argResult = None
  /\ GenIdle /\ UFIdle

SerializeArg ==
  /\ argResult' = serializeArg(arg, index, createAliasResolver(aliases))
  /\ UNCHANGED <<arg, index, aliases, genVars, ufVars>>

NextArg == SerializeArg

SpecArg == InitArg /\ [][NextArg]_vars

Serialized == argResult # None
Unwrapped == unwrapNullable(arg.typeAnnotation)[1]
IsNullable == arg.typeAnnotation.type = "NullableTypeAnnotation"
IsAliasRef == Unwrapped.type = "TypeAliasTypeAnnotation"
AliasKnown == IsAliasRef /\ Unwrapped.name \in DOMAIN aliases
Val == <<"args[", ToString(index), "]">>
Tokens(text) == {text[q] : q \in DOMAIN text}

\* C2 (nullability composition): for a nullable parameter the expression is
\* one conditional that tests args[index] for null or undefined, yields
\* std::nullopt there and otherwise std::make_optional of the conversion the
\* same type gets without the wrapper; without the wrapper the expression is
\* the conversion of args[index] alone, with no null test.
C2_NullabilityComposition ==
  (Serialized /\ argResult.ok) =>
    LET bare == serializeArg([name |-> arg.name, typeAnnotation |-> Unwrapped], index,
                             createAliasResolver(aliases))
    IN /\ bare.ok
       /\ Len(bare.text) = 4
       /\ SubSeq(bare.text, 1, 3) = Val
       /\ Tokens(bare.text) \cap {".isNull()", ".isUndefined()", " ? ", " : ", " || ",
                                  "std::nullopt", "std::make_optional("} = {}
       /\ IF IsNullable
          THEN /\ argResult.text =
                    Val \o <<".isNull()", " || ">> \o Val
                    \o <<".isUndefined()", " ? ", "std::nullopt", " : ", "std::make_optional(">>
                    \o bare.text \o <<")">>
               /\ Cardinality(Positions(argResult.text, " ? ")) = 1
               /\ IndicesRead(argResult.text) = {ToString(index)}
          ELSE argResult.text = bare.text

C2_Witness ==
  /\ Serialized /\ argResult.ok
  /\ IsNullable
  /\ Unwrapped.type = "StringTypeAnnotation"
  /\ index = MaxIndex

\* the annotation the dispatch sees: the unwrapped type, or what its alias names
Dispatched == IF IsAliasRef THEN aliases[Unwrapped.name] ELSE Unwrapped
Supported(t) ==
  \/ t.type \in SupportedTags
  \/ t.type = "ReservedTypeAnnotation" /\ t.name = "RootTag"
Offending(t) == IF t.type = "ReservedTypeAnnotation" THEN t.name ELSE t.type

\* C3 (exhaustiveness): when the annotation that reaches the dispatch is one of
\* the supported variants, serializeArg returns a non-empty expression; when
\* it is any other tag, or a reserved type of an unrecognized name, it throws
\* an error naming the parameter and the offending tag or name, and returns
\* no text.
C3_Exhaustive ==
  (Serialized /\ (IsAliasRef => AliasKnown)) =>
    IF Supported(Dispatched)
    THEN /\ argResult.ok
         /\ Len(argResult.text) > 0
         /\ flatten(argResult.text) # ""
    ELSE /\ ~argResult.ok
         /\ "text" \notin DOMAIN argResult
         /\ {arg.name, Offending(Dispatched)} \subseteq Tokens(argResult.error)

C3_Witness ==
  /\ Serialized
  /\ ~IsAliasRef
  /\ Unwrapped = Reserved("OtherTag")
  /\ ~argResult.ok

\* C10 as claimed (alias resolution guard): an alias that names anything but
\* an object shape makes serializeArg throw.
C10_AliasGuard ==
  (Serialized /\ AliasKnown /\ Dispatched.type # "ObjectTypeAnnotation") => ~argResult.ok

\* C10 as amended: an alias reference is looked up once in the alias table and
\* the annotation found is dispatched as it stands. If it is a supported
\* variant, object shape or not, the parameter is serialized as a parameter of
\* that type is; if it is itself an alias reference, or any other unsupported
\* tag, serializeArg throws an error naming that tag and looks no further.
C10_AliasResolvedOnce ==
  (Serialized /\ AliasKnown) =>
    IF Supported(Dispatched)
    THEN argResult =
           serializeArg([name |-> arg.name,
                         typeAnnotation |-> IF IsNullable THEN Nullable(Dispatched)
                                            ELSE Dispatched],
                        index, createAliasResolver(aliases))
         /\ argResult.ok
    ELSE /\ ~argResult.ok
         /\ argResult.error = UnknownPropType(arg.name, Offending(Dispatched))

C10_Witness ==
  /\ Serialized /\ AliasKnown
  /\ Dispatched = Ann("StringTypeAnnotation")
  /\ IsNullable
  /\ argResult.ok
  /\ ".asString(rt)" \in Tokens(argResult.text)

-----------------------------------------------------------------------------
(* UserFlow. global is the set of native entry points installed on the      *)
(* JavaScript global object; an API call returns the native calls it made   *)
(* and whether it threw (calling an entry point that is not there throws).  *)

AUTO_INSTANCE_KEY == -1

MaxNativeKey == 2

NativeCall(fn, args) == [fn |-> fn, args |-> args]
Done(nativeCalls) == [calls |-> nativeCalls, threw |-> FALSE]

\* nativeKey is what nativeUserFlowNextInstanceKey returns when it is called
newFlowId(global, markerId, instanceKey, nativeKey) ==
  LET auto == instanceKey = AUTO_INSTANCE_KEY
      native == "nativeUserFlowNextInstanceKey" \in global
      resolvedInstanceKey ==
        IF auto THEN (IF native THEN nativeKey ELSE 0) ELSE instanceKey
  IN [flowId |-> [markerId |-> markerId, instanceKey |-> resolvedInstanceKey],
      calls |-> IF auto /\ native
                THEN <<NativeCall("nativeUserFlowNextInstanceKey", <<markerId>>)>>
                ELSE <<>>,
      threw |-> FALSE]

\* mutant: the native entry point is called without looking whether it is there
start_unguarded(global, flowId, options) ==
  IF "nativeUserFlowStart" \in global
  THEN Done(<<NativeCall("nativeUserFlowStart",
                         <<flowId.markerId, flowId.instanceKey,
                           options.triggerSource, options.cancelOnBackground>>)>>)
  ELSE [calls |-> <<>>, threw |-> TRUE]

start(global, flowId, options) ==
  IF "nativeUserFlowStart" \in global
  THEN Done(<<NativeCall("nativeUserFlowStart",
                         <<flowId.markerId, flowId.instanceKey,
                           options.triggerSource, options.cancelOnBackground>>)>>)
  ELSE Done(<<>>)

addAnnotation(global, flowId, annotationName, annotationValue) ==
  IF "nativeUserFlowAddAnnotation" \in global
  THEN Done(<<NativeCall("nativeUserFlowAddAnnotation",
                         <<flowId.markerId, flowId.instanceKey,
                           annotationName, annotationValue>>)>>)
  ELSE Done(<<>>)

addPoint(global, flowId, pointName, data) ==
  IF "nativeUserFlowAddPoint" \in global
  THEN Done(<<NativeCall("nativeUserFlowAddPoint",
                         <<flowId.markerId, flowId.instanceKey, pointName, data>>)>>)
  ELSE Done(<<>>)

endSuccess(global, flowId) ==
  IF "nativeUserFlowEndSuccess" \in global
  THEN Done(<<NativeCall("nativeUserFlowEndSuccess",
                         <<flowId.markerId, flowId.instanceKey>>)>>)
  ELSE Done(<<>>)

endFailure(global, flowId, errorName, debugInfo) ==
  IF "nativeUserFlowEndFail" \in global
  THEN Done(<<NativeCall("nativeUserFlowEndFail",
                         <<flowId.markerId, flowId.instanceKey, errorName, debugInfo>>)>>)
  ELSE Done(<<>>)

endCancel(global, flowId, cancelReason) ==
  IF "nativeUserFlowEndCancel" \in global
  THEN Done(<<NativeCall("nativeUserFlowEndCancel",
                         <<flowId.markerId, flowId.instanceKey, cancelReason>>)>>)
  ELSE Done(<<>>)

NativeOf ==
  [op \in {"newFlowId", "start", "addAnnotation", "addPoint", "endSuccess",
           "endFailure", "endCancel"} |->
     CASE op = "newFlowId" -> "nativeUserFlowNextInstanceKey"
       [] op = "start" -> "nativeUserFlowStart"
       [] op = "addAnnotation" -> "nativeUserFlowAddAnnotation"
       [] op = "addPoint" -> "nativeUserFlowAddPoint"
       [] op = "endSuccess" -> "nativeUserFlowEndSuccess"
       [] op = "endFailure" -> "nativeUserFlowEndFail"
       [] op = "endCancel" -> "nativeUserFlowEndCancel"]
Natives == {NativeOf[op] : op \in DOMAIN NativeOf}

MarkerIds == {1, 2}
ExplicitKeys == {7}

InitUF ==
  /\ installed = {}
  /\ flow = None
  /\ calls = <<>>
  /\ last = None
  /\ GenIdle /\ ArgIdle

\* the host installs or removes one native entry point
InstallNative ==
  /\ \E n \in Natives \ installed : installed' = installed \cup {n}
  /\ UNCHANGED <<flow, calls, last, genVars, argVars>>

RemoveNative ==
  /\ \E n \in installed : installed' = installed \ {n}
  /\ UNCHANGED <<flow, calls, last, genVars, argVars>>

Called(op, r) ==
  /\ calls' = r.calls
  /\ last' = [op |-> op, available |-> NativeOf[op] \in installed, threw |-> r.threw]

NewFlowId ==
  /\ \E markerId \in MarkerIds, instanceKey \in {AUTO_INSTANCE_KEY} \cup ExplicitKeys,
        nativeKey \in 1..MaxNativeKey :
       LET r == newFlowId(installed, markerId, instanceKey, nativeKey)
       IN /\ flow' = r.flowId
          /\ calls' = r.calls
          /\ last' = [op |-> "newFlowId", available |-> NativeOf["newFlowId"] \in installed,
                      threw |-> r.threw, markerId |-> markerId, instanceKey |-> instanceKey]
  /\ UNCHANGED <<installed, genVars, argVars>>

Start ==
  /\ flow # None
  /\ \E cancelOnBackground \in BOOLEAN :
       Called("start", start(installed, flow,
                             [triggerSource |-> "user_click",
                              cancelOnBackground |-> cancelOnBackground]))
  /\ UNCHANGED <<installed, flow, genVars, argVars>>

AddAnnotation ==
  /\ flow # None
  /\ \E annotationValue \in {"true", "false"} :
       Called("addAnnotation", addAnnotation(installed, flow, "cached", annotationValue))
  /\ UNCHANGED <<installed, flow, genVars, argVars>>

AddPoint ==
  /\ flow # None
  /\ Called("addPoint", addPoint(installed, flow, "reload", "null"))
  /\ UNCHANGED <<installed, flow, genVars, argVars>>

EndSuccess ==
  /\ flow # None
  /\ Called("endSuccess", endSuccess(installed, flow))
  /\ UNCHANGED <<installed, flow, genVars, argVars>>

EndFailure ==
  /\ flow # None
  /\ \E debugInfo \in {"null", "timeout after 30 s"} :
       Called("endFailure", endFailure(installed, flow, "io_error", debugInfo))
  /\ UNCHANGED <<installed, flow, genVars, argVars>>

EndCancel ==
  /\ flow # None
  /\ Called("endCancel", endCancel(installed, flow, "navigated_away"))
  /\ UNCHANGED <<installed, flow, genVars, argVars>>

NextUF ==
  \/ InstallNative \/ RemoveNative
  \/ NewFlowId \/ Start \/ AddAnnotation \/ AddPoint
  \/ EndSuccess \/ EndFailure \/ EndCancel

SpecUF == InitUF /\ [][NextUF]_vars

\* C9 (UserFlow is a pass-through): whatever calls came before, an API call
\* made while its native entry point is missing makes no native call and does
\* not throw, and one made while it is there makes exactly one native call, to
\* that entry point, with the flow's markerId and instanceKey first; newFlowId
\* without an instance key and without its native entry point returns
\* instanceKey 0.
C9_PassThrough ==
  last # None =>
    /\ ~last.threw
    /\ last.op # "newFlowId" =>
         IF last.available
         THEN /\ Len(calls) = 1
              /\ calls[1].fn = NativeOf[last.op]
              /\ SubSeq(calls[1].args, 1, 2) = <<flow.markerId, flow.instanceKey>>
         ELSE calls = <<>>
    /\ (last.op = "newFlowId" /\ last.instanceKey = AUTO_INSTANCE_KEY /\ ~last.available) =>
         /\ flow = [markerId |-> last.markerId, instanceKey |-> 0]
         /\ calls = <<>>

C9_Witness ==
  /\ last # None
  /\ last.op = "start"
  /\ ~last.available
  /\ calls = <<>>
  /\ flow.instanceKey = 0
  /\ "nativeUserFlowEndSuccess" \in installed

====
